---- MODULE Spec2Model ----
(***************************************************************************)
(* Model of the live-location map component (src/src/components/Map.tsx): *)
(* the geolocation effect and its callbacks, the geofence test, the        *)
(* recenter action, the move-end handler and the MapController effect.     *)
(*                                                                         *)
(* Numbers.  JavaScript numbers are modelled in fixed point: angles and    *)
(* trigonometric values carry four decimal places (Scale), coordinates are *)
(* in units of 1e-4 degree, distances and radii are in whole metres.       *)
(***************************************************************************)
EXTENDS Integers, Sequences, FiniteSets, TLC

(***************************************************************************)
(* Bounds of the model.                                                    *)
(***************************************************************************)
\* number of position subscriptions the platform hands out in one run
MaxWatches == 3
\* the per-session counters (fixes, tracker recenters) saturate here
MaxCount == 2

(***************************************************************************)
(* Fixed-point arithmetic standing for Math.sin, Math.cos, Math.sqrt and   *)
(* Math.atan2 as calculateDistance uses them.                              *)
(***************************************************************************)
Scale == 100 * 100

\* Math.PI, four decimal places
PI == 31416

Abs(x) == IF x < 0 THEN -x ELSE x

\* division rounding toward zero, so that -(a / b) = (-a) / b as in IEEE
TruncDiv(a, b) == IF a >= 0 THEN a \div b ELSE -((-a) \div b)

Mul(a, b) == TruncDiv(a * b, Scale)

\* (deg * Math.PI) / 180 for deg in units of 1e-4 degree
ToRad(d) == TruncDiv(TruncDiv(d, 100) * PI, 18000)

\* Math.sin on [0, PI/2]: the series x - x^3/3! + x^5/5! - x^7/7! + x^9/9!
SinQ(x) ==
    LET x2 == Mul(x, x)
        t3 == Mul(x, x2) \div 6
        t5 == Mul(t3, x2) \div 20
        t7 == Mul(t5, x2) \div 42
        t9 == Mul(t7, x2) \div 72
    IN  x - t3 + t5 - t7 + t9

\* Math.sin on [-PI, PI]
Sin(x) ==
    LET m == Abs(x)
        s == IF m > PI \div 2 THEN SinQ(PI - m) ELSE SinQ(m)
    IN  IF x < 0 THEN -s ELSE s

\* Math.cos on [-PI, PI]
Cos(x) == Sin(PI \div 2 - Abs(x))

RECURSIVE SqrtIter(_, _, _)
SqrtIter(n, lo, hi) ==
    IF lo >= hi THEN lo
    ELSE LET mid == (lo + hi + 1) \div 2
         IN  IF mid * mid <= n THEN SqrtIter(n, mid, hi)
                               ELSE SqrtIter(n, lo, mid - 1)

\* Math.sqrt of a value carrying eight decimal places, result carrying four
Sqrt(n) == SqrtIter(n, 0, 2 * Scale)

RECURSIVE AtanIter(_, _, _, _)
AtanIter(y, x, lo, hi) ==
    IF lo >= hi THEN lo
    ELSE LET mid == (lo + hi + 1) \div 2
         IN  IF Sin(mid) * x <= Cos(mid) * y THEN AtanIter(y, x, mid, hi)
                                             ELSE AtanIter(y, x, lo, mid - 1)

\* Math.atan2(y, x) for y >= 0 and x >= 0: the angle t in [0, PI/2] with
\* tan t = y / x
Atan2(y, x) == AtanIter(y, x, 0, PI \div 2)

\* Earth radius in metres
R == 6371000

\* a haversine that takes the cosine of the first latitude twice
calculateDistanceFirstLatitudeTwice(lat1, lon1, lat2, lon2) ==
    LET p1 == ToRad(lat1)
        dp == ToRad(lat2 - lat1)
        dl == ToRad(lon2 - lon1)
        a  == Sin(TruncDiv(dp, 2)) * Sin(TruncDiv(dp, 2))
              + Mul(Cos(p1), Sin(TruncDiv(dl, 2)))
                * Mul(Cos(p1), Sin(TruncDiv(dl, 2)))
        c  == 2 * Atan2(Sqrt(a), Sqrt(Scale * Scale - a))
    IN  TruncDiv((R \div 1000) * c, Scale \div 1000)

\* the haversine distance in metres between (lat1, lon1) and (lat2, lon2)
calculateDistance(lat1, lon1, lat2, lon2) ==
    LET p1 == ToRad(lat1)
        p2 == ToRad(lat2)
        dp == ToRad(lat2 - lat1)
        dl == ToRad(lon2 - lon1)
        a  == Sin(TruncDiv(dp, 2)) * Sin(TruncDiv(dp, 2))
              + Mul(Cos(p1), Sin(TruncDiv(dl, 2)))
                * Mul(Cos(p2), Sin(TruncDiv(dl, 2)))
        c  == 2 * Atan2(Sqrt(a), Sqrt(Scale * Scale - a))
    IN  TruncDiv((R \div 1000) * c, Scale \div 1000)

(***************************************************************************)
(* Values.                                                                 *)
(***************************************************************************)
\* null of a LatLngExpression
Null == << >>

\* null of watchIdRef.current; the platform's watch ids are greater than zero
NullId == 0

\* null of locationError
NullStr == "null"

Languages == {"en", "de"}

\* useState default of mapCenter: Bad Belzig Marktplatz
DefaultCenter == <<521394, 125928>>

\* useState default of currentZoom
DefaultZoom == 14

\* the zoom of a first-fix recenter and of the recenter action
FixZoom == 15

\* coordinates the position source reports
FixCoords == {<<520000, 130000>>, <<480000, 20000>>}

\* views the user leaves the surface at when a gesture ends
NavCenters == {<<520000, 140000>>, <<521400, 125930>>}
NavZooms == {13, 16}

AllCoords == {DefaultCenter} \cup FixCoords \cup NavCenters

\* the POI provider's records (../data/pois); the radii put one fix exactly
\* on a geofence border (ring), one on a zero-radius fence (spot)
pois ==
    { [id |-> "spot", coordinates |-> [latitude |-> 520000, longitude |-> 130000],
       geofenceRadius |-> 0],
      [id |-> "ring", coordinates |-> [latitude |-> 520000, longitude |-> 140000],
       geofenceRadius |-> 67532],
      [id |-> "marktplatz", coordinates |-> [latitude |-> 521400, longitude |-> 125930],
       geofenceRadius |-> 100] }

\* the quiz content (src/src/data/quizzes.ts): ids, options and the index of
\* the correct option; the file ends inside the third question of
\* quiz-heimatmuseum, which has its options but no correctOptionIndex
quizzes ==
   <<
      [id |-> "quiz-burg-eisenhardt", poiId |-> "burg-eisenhardt",
       questions |-> <<
         [id |-> "burg-eisenhardt-q1",
          options |-> [en |-> <<"10th century", "12th century", "14th century", "16th century">>,
                       de |-> <<"10. Jahrhundert", "12. Jahrhundert", "14. Jahrhundert", "16. Jahrhundert">>],
          correctOptionIndex |-> 1],
         [id |-> "burg-eisenhardt-q2",
          options |-> [en |-> <<"Royal residence", "Military fortress", "Religious monastery", "Trading post">>,
                       de |-> <<"Königliche Residenz", "Militärische Festung", "Religiöses Kloster", "Handelsposten">>],
          correctOptionIndex |-> 1],
         [id |-> "burg-eisenhardt-q3",
          options |-> [en |-> <<"Baroque", "Renaissance", "Gothic", "Romanesque">>,
                       de |-> <<"Barock", "Renaissance", "Gotik", "Romanik">>],
          correctOptionIndex |-> 3],
         [id |-> "burg-eisenhardt-q4",
          options |-> [en |-> <<"A hotel", "A museum", "Government offices", "Private residences">>,
                       de |-> <<"Ein Hotel", "Ein Museum", "Regierungsbüros", "Privatwohnungen">>],
          correctOptionIndex |-> 0],
         [id |-> "burg-eisenhardt-q5",
          options |-> [en |-> <<"St. Peter Chapel", "Briccius Chapel", "Maria Chapel", "Castle Chapel">>,
                       de |-> <<"St. Peter Kapelle", "Bricciuskapelle", "Marienkapelle", "Burgkapelle">>],
          correctOptionIndex |-> 1] >>],
      [id |-> "quiz-steintherme", poiId |-> "steintherme",
       questions |-> <<
         [id |-> "steintherme-q1",
          options |-> [en |-> <<"Natural thermal water", "Water slides", "Olympic swimming pool", "Artificial wave pool">>,
                       de |-> <<"Natürliches Thermalwasser", "Wasserrutschen", "Olympisches Schwimmbecken", "Künstliches Wellenbecken">>],
          correctOptionIndex |-> 0],
         [id |-> "steintherme-q2",
          options |-> [en |-> <<"1994", "2002", "2008", "2015">>,
                       de |-> <<"1994", "2002", "2008", "2015">>],
          correctOptionIndex |-> 1],
         [id |-> "steintherme-q3",
          options |-> [en |-> <<"Improving skin conditions", "Curing common colds", "Enhancing eyesight", "Preventing hair loss">>,
                       de |-> <<"Verbesserung von Hautkrankheiten", "Heilung von Erkältungen", "Verbesserung der Sehkraft", "Vorbeugung von Haarausfall">>],
          correctOptionIndex |-> 0],
         [id |-> "steintherme-q4",
          options |-> [en |-> <<"25°C", "32°C", "38°C", "45°C">>,
                       de |-> <<"25°C", "32°C", "38°C", "45°C">>],
          correctOptionIndex |-> 2],
         [id |-> "steintherme-q5",
          options |-> [en |-> <<"Sauna area", "Massage service", "Ice skating rink", "Wellness treatments">>,
                       de |-> <<"Saunabereich", "Massageservice", "Eislaufbahn", "Wellnessbehandlungen">>],
          correctOptionIndex |-> 2] >>],
      [id |-> "quiz-marktplatz", poiId |-> "marktplatz",
       questions |-> <<
         [id |-> "marktplatz-q1",
          options |-> [en |-> <<"Weekly farmers market", "Annual film festival", "Summer music concerts", "Winter ice skating">>,
                       de |-> <<"Wöchentlicher Bauernmarkt", "Jährliches Filmfestival", "Sommerliche Musikkonzerte", "Winterliches Eislaufen">>],
          correctOptionIndex |-> 0],
         [id |-> "marktplatz-q2",
          options |-> [en |-> <<"Colorful facades", "Thatched roofs", "Glass fronts", "Wooden balconies">>,
                       de |-> <<"Bunte Fassaden", "Reetdächer", "Glasfronten", "Holzbalkone">>],
          correctOptionIndex |-> 0],
         [id |-> "marktplatz-q3",
          options |-> [en |-> <<"Town Hall", "Main Library", "Central Bank", "Post Office">>,
                       de |-> <<"Rathaus", "Hauptbibliothek", "Zentralbank", "Postamt">>],
          correctOptionIndex |-> 0],
         [id |-> "marktplatz-q4",
          options |-> [en |-> <<"The Great Fire of 1636", "World War II bombing", "Flood of 1845", "Renovation in 1990s">>,
                       de |-> <<"Der Große Brand von 1636", "Bombardierung im Zweiten Weltkrieg", "Überschwemmung von 1845", "Renovierung in den 1990er Jahren">>],
          correctOptionIndex |-> 0],
         [id |-> "marktplatz-q5",
          options |-> [en |-> <<"Cobblestone", "Asphalt", "Brick", "Concrete slabs">>,
                       de |-> <<"Kopfsteinpflaster", "Asphalt", "Ziegelstein", "Betonplatten">>],
          correctOptionIndex |-> 0] >>],
      [id |-> "quiz-rathaus", poiId |-> "rathaus",
       questions |-> <<
         [id |-> "rathaus-q1",
          options |-> [en |-> <<"15th century", "16th century", "17th century", "18th century">>,
                       de |-> <<"15. Jahrhundert", "16. Jahrhundert", "17. Jahrhundert", "18. Jahrhundert">>],
          correctOptionIndex |-> 1],
         [id |-> "rathaus-q2",
          options |-> [en |-> <<"Gothic", "Renaissance", "Baroque", "Neoclassical">>,
                       de |-> <<"Gotik", "Renaissance", "Barock", "Neoklassizismus">>],
          correctOptionIndex |-> 1],
         [id |-> "rathaus-q3",
          options |-> [en |-> <<"Red", "Yellow", "White", "Blue">>,
                       de |-> <<"Rot", "Gelb", "Weiß", "Blau">>],
          correctOptionIndex |-> 2],
         [id |-> "rathaus-q4",
          options |-> [en |-> <<"City council meetings", "Theater performances", "Art exhibitions", "Religious services">>,
                       de |-> <<"Stadtratssitzungen", "Theateraufführungen", "Kunstausstellungen", "Gottesdienste">>],
          correctOptionIndex |-> 0],
         [id |-> "rathaus-q5",
          options |-> [en |-> <<"Clock tower", "Weather vane", "Bell tower", "Statue">>,
                       de |-> <<"Uhrturm", "Wetterfahne", "Glockenturm", "Statue">>],
          correctOptionIndex |-> 0] >>],
      [id |-> "quiz-st-marienkirche", poiId |-> "st-marienkirche",
       questions |-> <<
         [id |-> "st-marienkirche-q1",
          options |-> [en |-> <<"12th century", "13th century", "14th century", "15th century">>,
                       de |-> <<"12. Jahrhundert", "13. Jahrhundert", "14. Jahrhundert", "15. Jahrhundert">>],
          correctOptionIndex |-> 1],
         [id |-> "st-marienkirche-q2",
          options |-> [en |-> <<"Sandstone", "Brick", "Marble", "Granite">>,
                       de |-> <<"Sandstein", "Backstein", "Marmor", "Granit">>],
          correctOptionIndex |-> 1],
         [id |-> "st-marienkirche-q3",
          options |-> [en |-> <<"Romanesque", "Gothic", "Baroque", "Renaissance">>,
                       de |-> <<"Romanisch", "Gotisch", "Barock", "Renaissance">>],
          correctOptionIndex |-> 1],
         [id |-> "st-marienkirche-q4",
          options |-> [en |-> <<"Medieval altar", "Ancient crypt", "Painted ceiling", "Pipe organ">>,
                       de |-> <<"Mittelalterlicher Altar", "Antike Krypta", "Bemalte Decke", "Pfeifenorgel">>],
          correctOptionIndex |-> 0],
         [id |-> "st-marienkirche-q5",
          options |-> [en |-> <<"Roman Catholic", "Protestant Lutheran", "Orthodox", "Anglican">>,
                       de |-> <<"Römisch-Katholisch", "Evangelisch-Lutherisch", "Orthodox", "Anglikanisch">>],
          correctOptionIndex |-> 1] >>],
      [id |-> "quiz-bricciuskapelle", poiId |-> "bricciuskapelle",
       questions |-> <<
         [id |-> "bricciuskapelle-q1",
          options |-> [en |-> <<"A local nobleman", "A saint", "The architect", "A medieval mayor">>,
                       de |-> <<"Ein lokaler Adliger", "Ein Heiliger", "Der Architekt", "Ein mittelalterlicher Bürgermeister">>],
          correctOptionIndex |-> 1],
         [id |-> "bricciuskapelle-q2",
          options |-> [en |-> <<"12th century", "14th century", "16th century", "18th century">>,
                       de |-> <<"12. Jahrhundert", "14. Jahrhundert", "16. Jahrhundert", "18. Jahrhundert">>],
          correctOptionIndex |-> 0],
         [id |-> "bricciuskapelle-q3",
          options |-> [en |-> <<"Regular church services", "Weddings and baptisms", "Museum", "Tourist attraction">>,
                       de |-> <<"Regelmäßige Gottesdienste", "Hochzeiten und Taufen", "Museum", "Touristenattraktion">>],
          correctOptionIndex |-> 1],
         [id |-> "bricciuskapelle-q4",
          options |-> [en |-> <<"Round arches", "Pointed arches", "Dome", "Spire">>,
                       de |-> <<"Rundbögen", "Spitzbögen", "Kuppel", "Turmspitze">>],
          correctOptionIndex |-> 0],
         [id |-> "bricciuskapelle-q5",
          options |-> [en |-> <<"Fire in 1636", "Thirty Years' War", "World War II", "Earthquake in 1755">>,
                       de |-> <<"Brand im Jahr 1636", "Dreißigjähriger Krieg", "Zweiter Weltkrieg", "Erdbeben im Jahr 1755">>],
          correctOptionIndex |-> 1] >>],
      [id |-> "quiz-heimatmuseum", poiId |-> "heimatmuseum",
       questions |-> <<
         [id |-> "heimatmuseum-q1",
          options |-> [en |-> <<"In the town hall", "In the castle gatehouse", "In a former school", "In a medieval merchant house">>,
                       de |-> <<"Im Rathaus", "Im Torhaus der Burg", "In einer ehemaligen Schule", "In einem mittelalterlichen Kaufmannshaus">>],
          correctOptionIndex |-> 1],
         [id |-> "heimatmuseum-q2",
          options |-> [en |-> <<"1920s", "1950s", "1970s", "1990s">>,
                       de |-> <<"1920er Jahre", "1950er Jahre", "1970er Jahre", "1990er Jahre">>],
          correctOptionIndex |-> 2],
         [id |-> "heimatmuseum-q3",
          options |-> [en |-> <<"Only medieval weapons", "Only religious items", "Only farming tools", "Various local historical items">>,
                       de |-> <<"Nur mittelalterliche Waffen", "Nur religiöse Gegenstände", "Nur landwirtschaftliche Werkzeuge", "Verschiedene lokale historische Gegenstände">>]] >>]
   >>

\* GeolocationPositionError codes
PERMISSION_DENIED == 1
POSITION_UNAVAILABLE == 2
TIMEOUT == 3
ErrorCodes == 0 .. 3

(***************************************************************************)
(* State.                                                                  *)
(***************************************************************************)
VARIABLES
    \* MapComponent's React state and ref
    userLocation, mapCenter, currentZoom, locationError, watchIdRef,
    \* the identity of the object mapCenter holds (React compares state and
    \* effect dependencies with Object.is)
    mapCenterObject,
    \* the language prop, and whether navigator.geolocation exists
    language, hasGeolocation,
    \* "rendered" (effects not yet run), "mounted", "unmounted"
    phase,
    \* the platform's position source: ids of the live watches, the next id
    \* it hands out, and the cleared watches that still have a callback task
    \* queued, each with the language its handlers closed over
    watches, nextWatchId, stale,
    \* the Leaflet map: its view, and whether a moveend it fired in setView
    \* is still to be handled
    surfaceCenter, surfaceZoom, moveEndPending,
    \* history: the last handler that ran with its argument, the position
    \* most recently handed to handleSuccess, and, for the current
    \* subscription, the fixes delivered, the recenters they caused and
    \* whether an error followed a fix
    lastEvent, lastFix, sessFixes, sessRecenters, sessErrAfterFix,
    \* the last direct call of calculateDistance with its arguments and its
    \* results in both argument orders; << >> before any call
    measured,
    \* the calls of the onPoiClick prop made by the handler that ran last,
    \* each with the POI it was given
    onPoiClickCalls,
    \* the quiz question last read from the quiz content, as the pair of
    \* its positions; << >> before any read
    quizRead

component == <<userLocation, mapCenter, mapCenterObject, currentZoom,
               locationError, watchIdRef>>
platform == <<watches, nextWatchId, stale>>
surface == <<surfaceCenter, surfaceZoom, moveEndPending>>
session == <<sessFixes, sessRecenters, sessErrAfterFix>>
vars == <<component, language, hasGeolocation, phase, platform, surface,
          lastEvent, lastFix, session, measured, onPoiClickCalls, quizRead>>

Event(n, a) == [name |-> n, arg |-> a]

Bump(n) == IF n < MaxCount THEN n + 1 ELSE n

\* the identities of the objects handed to setMapCenter; React only asks
\* whether a new value is the object the state holds, so two are enough
Objects == {"held", "other"}

\* an object other than the one mapCenter holds: an array literal, or the
\* LatLng that map.getCenter() builds on every call
NewObject == CHOOSE object \in Objects : object # mapCenterObject

(***************************************************************************)
(* Rendering: values the component derives from its state on every render. *)
(***************************************************************************)
\* calculateDistance of every location the model can hold to every POI,
\* evaluated once
DistanceTable ==
    [loc \in AllCoords |->
        [poi \in pois |->
            calculateDistance(loc[1], loc[2], poi.coordinates.latitude,
                              poi.coordinates.longitude)]]

\* the call of calculateDistance in isWithinGeofence
Distance(loc, poi) == DistanceTable[loc][poi]

\* a geofence test that excludes the border of the fence
isWithinGeofenceExclusive(poi) ==
    IF userLocation = Null THEN FALSE
    ELSE Distance(userLocation, poi) < poi.geofenceRadius

\* a geofence test that takes the map's center while no position is known
isWithinGeofenceFromCenter(poi) ==
    Distance(IF userLocation = Null THEN mapCenter ELSE userLocation, poi)
        <= poi.geofenceRadius

isWithinGeofence(poi) ==
    IF userLocation = Null THEN FALSE
    ELSE Distance(userLocation, poi) <= poi.geofenceRadius

\* a recenter button that is also disabled while an error is shown
RecenterDisabledOnError == userLocation = Null \/ locationError # NullStr

\* the disabled attribute of the recenter button
RecenterDisabled == userLocation = Null

(***************************************************************************)
(* MapController: its effect runs when center or zoom changed.             *)
(***************************************************************************)
\* map.setView(center, zoom); Leaflet fires moveend when the view is set
setView(center, zoom) ==
    /\ surfaceCenter' = center
    /\ surfaceZoom' = zoom
    /\ moveEndPending' = TRUE

MapControllerEffect(changed) ==
    IF changed THEN setView(mapCenter', currentZoom')
    ELSE UNCHANGED surface

(***************************************************************************)
(* The geolocation effect.                                                 *)
(***************************************************************************)
UnsupportedMessage(lang) ==
    IF lang = "en" THEN "Geolocation is not supported by your browser."
    ELSE "Geolokalisierung wird von Ihrem Browser nicht unterstützt."

\* a switch whose TIMEOUT case falls into the default case
ErrorMessageFallthrough(code, lang) ==
    CASE code = PERMISSION_DENIED ->
           IF lang = "en" THEN "Location permission denied."
           ELSE "Standortberechtigung verweigert."
      [] code = POSITION_UNAVAILABLE ->
           IF lang = "en" THEN "Location information unavailable."
           ELSE "Standortinformationen nicht verfügbar."
      [] OTHER ->
           IF lang = "en" THEN "An unknown error occurred."
           ELSE "Ein unbekannter Fehler ist aufgetreten."

\* the switch of handleError
ErrorMessage(code, lang) ==
    CASE code = PERMISSION_DENIED ->
           IF lang = "en" THEN "Location permission denied."
           ELSE "Standortberechtigung verweigert."
      [] code = POSITION_UNAVAILABLE ->
           IF lang = "en" THEN "Location information unavailable."
           ELSE "Standortinformationen nicht verfügbar."
      [] code = TIMEOUT ->
           IF lang = "en" THEN "Location request timed out."
           ELSE "Standortanfrage Zeitüberschreitung."
      [] OTHER ->
           IF lang = "en" THEN "An unknown error occurred."
           ELSE "Ein unbekannter Fehler ist aufgetreten."

\* a first-fix test that asks whether a position is known yet
IsFirstFixNoPosition == userLocation = Null

\* a first-fix test of the opposite polarity
IsFirstFixInverted == watchIdRef # NullId

\* a first-fix test that every fix passes
IsFirstFixAlways == TRUE

\* the test handleSuccess makes before it centers the map
IsFirstFix == watchIdRef = NullId

\* a handleSuccess that leaves the error as it is
handleSuccessKeepsError(pos) ==
    /\ userLocation' = pos
    /\ IF IsFirstFix
       THEN /\ mapCenter' = pos
            /\ mapCenterObject' = NewObject
            /\ currentZoom' = FixZoom
            /\ sessRecenters' = Bump(sessRecenters)
       ELSE UNCHANGED <<mapCenter, mapCenterObject, currentZoom, sessRecenters>>
    /\ UNCHANGED locationError
    /\ MapControllerEffect(mapCenterObject' # mapCenterObject \/ currentZoom' # currentZoom)
    /\ UNCHANGED watchIdRef

\* handleSuccess, called on a mounted component
handleSuccess(pos) ==
    /\ userLocation' = pos
    /\ IF IsFirstFix
       THEN /\ mapCenter' = pos
            /\ mapCenterObject' = NewObject
            /\ currentZoom' = FixZoom
            /\ sessRecenters' = Bump(sessRecenters)
       ELSE UNCHANGED <<mapCenter, mapCenterObject, currentZoom, sessRecenters>>
    /\ locationError' = NullStr
    /\ MapControllerEffect(mapCenterObject' # mapCenterObject \/ currentZoom' # currentZoom)
    /\ UNCHANGED watchIdRef

\* a handleError that gives the subscription up
handleErrorStops(code, lang) ==
    /\ locationError' = ErrorMessage(code, lang)
    /\ watchIdRef' = NullId
    /\ UNCHANGED <<userLocation, mapCenter, mapCenterObject, currentZoom,
                   surface>>

\* a handleError that drops the position it can no longer trust
handleErrorForgetsPosition(code, lang) ==
    /\ locationError' = ErrorMessage(code, lang)
    /\ userLocation' = Null
    /\ UNCHANGED <<mapCenter, mapCenterObject, currentZoom, watchIdRef, surface>>

\* handleError of the effect run that closed over lang, on a mounted component
handleError(code, lang) ==
    /\ locationError' = ErrorMessage(code, lang)
    /\ UNCHANGED <<userLocation, mapCenter, mapCenterObject, currentZoom,
                   watchIdRef, surface>>

\* an effect that reports the missing capability and subscribes all the same
EffectBodyNoReturn(lang, ref, w) ==
    /\ IF ~hasGeolocation
       THEN locationError' = UnsupportedMessage(lang)
       ELSE UNCHANGED locationError
    /\ watchIdRef' = nextWatchId
    /\ watches' = w \cup {nextWatchId}
    /\ nextWatchId' = nextWatchId + 1

\* the body of the effect for the language prop lang, run when the ref holds
\* ref and the platform is in state <<w, s>> (after a cleanup, if any)
EffectBody(lang, ref, w) ==
    IF ~hasGeolocation
    THEN /\ locationError' = UnsupportedMessage(lang)
         /\ watchIdRef' = ref
         /\ watches' = w
         /\ nextWatchId' = nextWatchId
    ELSE /\ watchIdRef' = nextWatchId
         /\ watches' = w \cup {nextWatchId}
         /\ nextWatchId' = nextWatchId + 1
         /\ UNCHANGED locationError

\* the effect's cleanup: the ref, the live watches and the stale watches it
\* leaves (a callback task of the cleared watch may already be queued)
\* a cleanup that calls clearWatch without testing the ref
ClearWatchCallsUnguarded == {watchIdRef}

\* the ids the cleanup calls navigator.geolocation.clearWatch with
ClearWatchCalls == IF watchIdRef # NullId THEN {watchIdRef} ELSE {}

\* a cleanup that leaves the ref as it is
CleanupRefKept == watchIdRef

CleanupRef == NullId

\* a cleanup that does not call clearWatch
CleanupWatchesLeaked == watches

CleanupWatches == watches \ ClearWatchCalls
CleanupStale ==
    stale \cup {[id |-> i, lang |-> language] : i \in ClearWatchCalls \cap watches}

(***************************************************************************)
(* Actions.                                                                *)
(***************************************************************************)
Init ==
    /\ userLocation = Null
    /\ mapCenter = DefaultCenter
    /\ mapCenterObject = "held"
    /\ currentZoom = DefaultZoom
    /\ locationError = NullStr
    /\ watchIdRef = NullId
    /\ language \in Languages
    /\ hasGeolocation \in BOOLEAN
    /\ phase = "rendered"
    /\ watches = {}
    /\ nextWatchId = 1
    /\ stale = {}
    /\ surfaceCenter = DefaultCenter
    /\ surfaceZoom = DefaultZoom
    /\ moveEndPending = FALSE
    /\ lastEvent = Event("render", << >>)
    /\ lastFix = Null
    /\ sessFixes = 0
    /\ sessRecenters = 0
    /\ sessErrAfterFix = FALSE
    /\ measured = << >>
    /\ onPoiClickCalls = << >>
    /\ quizRead = << >>

\* first commit: MapController's effect, then the geolocation effect
Mount ==
    /\ phase = "rendered"
    /\ phase' = "mounted"
    /\ EffectBody(language, watchIdRef, watches)
    /\ setView(mapCenter, currentZoom)
    /\ lastEvent' = Event("mount", << >>)
    /\ onPoiClickCalls' = << >>
    /\ UNCHANGED <<measured, quizRead>>
    /\ UNCHANGED <<userLocation, mapCenter, mapCenterObject, currentZoom,
                   language, hasGeolocation, stale, lastFix, session>>

\* the language prop changes: cleanup of the previous effect run, then the
\* effect again
LanguageChange(lang) ==
    /\ phase = "mounted"
    /\ lang # language
    /\ hasGeolocation => nextWatchId <= MaxWatches
    /\ language' = lang
    /\ stale' = CleanupStale
    /\ IF hasGeolocation
       THEN EffectBody(lang, CleanupRef, CleanupWatches)
       ELSE EffectBody(lang, watchIdRef, watches)
    /\ sessFixes' = 0
    /\ sessRecenters' = 0
    /\ sessErrAfterFix' = FALSE
    /\ lastEvent' = Event("language", << >>)
    /\ onPoiClickCalls' = << >>
    /\ UNCHANGED <<measured, quizRead>>
    /\ UNCHANGED <<userLocation, mapCenter, mapCenterObject, currentZoom,
                   hasGeolocation, phase, surface, lastFix>>

\* the consuming view is torn down: cleanup only
Teardown ==
    /\ phase = "mounted"
    /\ phase' = "unmounted"
    /\ IF hasGeolocation
       THEN /\ watchIdRef' = CleanupRef
            /\ watches' = CleanupWatches
            /\ stale' = CleanupStale
       ELSE UNCHANGED <<watchIdRef, watches, stale>>
    /\ lastEvent' = Event("teardown", << >>)
    /\ onPoiClickCalls' = << >>
    /\ UNCHANGED <<measured, quizRead>>
    /\ UNCHANGED <<userLocation, mapCenter, mapCenterObject, currentZoom,
                   locationError, language, hasGeolocation, nextWatchId,
                   surface, lastFix, session>>

\* the position source delivers a fix on the live watch
FixDelivered(pos) ==
    /\ phase = "mounted"
    /\ watches # {}
    /\ handleSuccess(pos)
    /\ lastFix' = pos
    /\ sessFixes' = Bump(sessFixes)
    /\ lastEvent' = Event("fix", pos)
    /\ onPoiClickCalls' = << >>
    /\ UNCHANGED <<measured, quizRead>>
    /\ UNCHANGED <<language, hasGeolocation, phase, platform, sessErrAfterFix>>

\* the position source delivers an error on the live watch
ErrorDelivered(code) ==
    /\ phase = "mounted"
    /\ watches # {}
    /\ handleError(code, language)
    /\ sessErrAfterFix' = (sessErrAfterFix \/ sessFixes > 0)
    /\ lastEvent' = Event("error", <<code>>)
    /\ onPoiClickCalls' = << >>
    /\ UNCHANGED <<measured, quizRead>>
    /\ UNCHANGED <<language, hasGeolocation, phase, platform, lastFix,
                   sessFixes, sessRecenters>>

\* a success callback queued before clearWatch runs afterwards; React drops
\* the state updates of an unmounted component
LateFixDelivered(s, pos) ==
    /\ s \in stale
    /\ stale' = stale \ {s}
    /\ IF phase = "mounted"
       THEN handleSuccess(pos)
       ELSE UNCHANGED <<component, surface, sessRecenters>>
    /\ lastFix' = pos
    /\ lastEvent' = Event("lateFix", pos)
    /\ onPoiClickCalls' = << >>
    /\ UNCHANGED <<measured, quizRead>>
    /\ UNCHANGED <<language, hasGeolocation, phase, watches, nextWatchId,
                   sessFixes, sessErrAfterFix>>

\* an error callback queued before clearWatch runs afterwards
LateErrorDelivered(s, code) ==
    /\ s \in stale
    /\ stale' = stale \ {s}
    /\ IF phase = "mounted"
       THEN handleError(code, s.lang)
       ELSE UNCHANGED <<component, surface>>
    /\ lastEvent' = Event("lateError", <<code>>)
    /\ onPoiClickCalls' = << >>
    /\ UNCHANGED <<measured, quizRead>>
    /\ UNCHANGED <<language, hasGeolocation, phase, watches, nextWatchId,
                   lastFix, session>>

\* a recenter that keeps the current zoom
recenterMapKeepsZoom ==
    /\ phase = "mounted"
    /\ IF userLocation # Null
       THEN /\ mapCenter' = userLocation
            /\ mapCenterObject' = IF userLocation # mapCenter THEN NewObject
                                  ELSE mapCenterObject
            /\ currentZoom' = currentZoom
       ELSE UNCHANGED <<mapCenter, mapCenterObject, currentZoom>>
    /\ MapControllerEffect(mapCenterObject' # mapCenterObject \/ currentZoom' # currentZoom)
    /\ lastEvent' = Event("recenter", << >>)
    /\ onPoiClickCalls' = << >>
    /\ UNCHANGED <<measured, quizRead>>
    /\ UNCHANGED <<userLocation, locationError, watchIdRef, language,
                   hasGeolocation, phase, platform, lastFix, session>>

\* a recenter that falls back to the default view while no position is known
recenterMapFallsBack ==
    /\ phase = "mounted"
    /\ IF userLocation # Null
       THEN /\ mapCenter' = userLocation
            /\ mapCenterObject' = IF userLocation # mapCenter THEN NewObject
                                  ELSE mapCenterObject
            /\ currentZoom' = FixZoom
       ELSE /\ mapCenter' = DefaultCenter
            /\ mapCenterObject' = NewObject
            /\ currentZoom' = FixZoom
    /\ MapControllerEffect(mapCenterObject' # mapCenterObject \/ currentZoom' # currentZoom)
    /\ lastEvent' = Event("recenter", << >>)
    /\ onPoiClickCalls' = << >>
    /\ UNCHANGED <<measured, quizRead>>
    /\ UNCHANGED <<userLocation, locationError, watchIdRef, language,
                   hasGeolocation, phase, platform, lastFix, session>>

\* the click handler of the recenter button; the handler's own test of
\* userLocation is its only guard
recenterMap ==
    /\ phase = "mounted"
    /\ IF userLocation # Null
       THEN /\ mapCenter' = userLocation
            /\ mapCenterObject' = IF userLocation # mapCenter THEN NewObject
                                  ELSE mapCenterObject
            /\ currentZoom' = FixZoom
       ELSE UNCHANGED <<mapCenter, mapCenterObject, currentZoom>>
    /\ MapControllerEffect(mapCenterObject' # mapCenterObject \/ currentZoom' # currentZoom)
    /\ lastEvent' = Event("recenter", << >>)
    /\ onPoiClickCalls' = << >>
    /\ UNCHANGED <<measured, quizRead>>
    /\ UNCHANGED <<userLocation, locationError, watchIdRef, language,
                   hasGeolocation, phase, platform, lastFix, session>>

\* a move-end handler that keeps the center the state already holds
onMoveEndKeepsState(center) ==
    /\ mapCenter' = mapCenter
    /\ UNCHANGED <<userLocation, mapCenterObject, currentZoom, locationError,
                   watchIdRef>>
    /\ MapControllerEffect(TRUE)

\* onMoveEnd, with center the value of map.getCenter(): the state takes it
\* as a new LatLng object, so MapController's effect runs
onMoveEnd(center) ==
    /\ mapCenter' = center
    /\ mapCenterObject' = NewObject
    /\ UNCHANGED <<userLocation, currentZoom, locationError, watchIdRef>>
    /\ MapControllerEffect(mapCenterObject' # mapCenterObject)

\* the user ends a pan or zoom gesture that leaves the surface at
\* (center, zoom); Leaflet fires moveend
UserMoveEnd(center, zoom) ==
    /\ phase = "mounted"
    /\ onMoveEnd(center)
    /\ lastEvent' = Event("userMove", <<center[1], center[2], zoom>>)
    /\ onPoiClickCalls' = << >>
    /\ UNCHANGED <<measured, quizRead>>
    /\ UNCHANGED <<language, hasGeolocation, phase, platform, lastFix, session>>

\* the moveend fired by a programmatic setView is handled
ProgrammaticMoveEnd ==
    /\ phase = "mounted"
    /\ moveEndPending
    /\ onMoveEnd(surfaceCenter)
    /\ lastEvent' = Event("moveEnd", << >>)
    /\ onPoiClickCalls' = << >>
    /\ UNCHANGED <<measured, quizRead>>
    /\ UNCHANGED <<language, hasGeolocation, phase, platform, lastFix, session>>

\* a click handler that emits only for a POI in range
MarkerClickInRangeOnly(poi) ==
    /\ onPoiClickCalls' = IF isWithinGeofence(poi) THEN <<poi>> ELSE << >>
    /\ UNCHANGED <<component, surface>>

\* the click handler of a POI's marker: click: () => onPoiClick(poi)
MarkerClick(poi) ==
    /\ onPoiClickCalls' = <<poi>>
    /\ UNCHANGED <<component, surface>>

\* the user clicks or taps the marker of poi
MarkerClicked(poi) ==
    /\ phase = "mounted"
    /\ MarkerClick(poi)
    /\ lastEvent' = Event("poiClick", poi.id)
    /\ UNCHANGED <<measured, quizRead>>
    /\ UNCHANGED <<language, hasGeolocation, phase, platform, lastFix, session>>

Next ==
    \/ Mount
    \/ \E lang \in Languages : LanguageChange(lang)
    \/ Teardown
    \/ \E pos \in FixCoords : FixDelivered(pos)
    \/ \E code \in ErrorCodes : ErrorDelivered(code)
    \/ \E s \in stale, pos \in FixCoords : LateFixDelivered(s, pos)
    \/ \E s \in stale, code \in ErrorCodes : LateErrorDelivered(s, code)
    \/ recenterMap
    \/ \E center \in NavCenters, zoom \in NavZooms : UserMoveEnd(center, zoom)
    \/ ProgrammaticMoveEnd
    \/ \E poi \in pois : MarkerClicked(poi)

Spec == Init /\ [][Next]_vars

\* the event loop runs the handler of every moveend the map has fired
FairSpec == Spec /\ WF_vars(ProgrammaticMoveEnd)

(***************************************************************************)
(* calculateDistance called on its own, over a grid of coordinates that    *)
(* holds both poles, the equator, the antimeridian on either side and two  *)
(* points of Bad Belzig.                                                   *)
(***************************************************************************)
GridLatitudes == {-900000, -450000, 0, 521400, 900000}
GridLongitudes == {-1800000, 0, 125930, 1800000}
GridCoords == GridLatitudes \X GridLongitudes

\* one call per run: the function keeps nothing between calls
Measure(a, b) ==
    /\ measured = << >>
    /\ measured' = [a |-> a, b |-> b,
                    ab |-> calculateDistance(a[1], a[2], b[1], b[2]),
                    ba |-> calculateDistance(b[1], b[2], a[1], a[2])]
    /\ UNCHANGED <<component, language, hasGeolocation, phase, platform,
                   surface, lastEvent, lastFix, session, onPoiClickCalls,
                   quizRead>>

DistanceNext == \E a \in GridCoords, b \in GridCoords : Measure(a, b)

DistanceSpec == Init /\ [][DistanceNext]_vars

(***************************************************************************)
(* The quiz content read on its own: question j of quiz i.                 *)
(***************************************************************************)
ReadQuestion(i, j) ==
    /\ quizRead' = [quiz |-> i, question |-> j]
    /\ UNCHANGED <<component, language, hasGeolocation, phase, platform,
                   surface, lastEvent, lastFix, session, measured,
                   onPoiClickCalls>>

QuizNext ==
    \E i \in DOMAIN quizzes :
        \E j \in DOMAIN quizzes[i].questions : ReadQuestion(i, j)

QuizSpec == Init /\ [][QuizNext]_vars

(***************************************************************************)
(* Properties.                                                             *)
(***************************************************************************)
\* the component exists (nothing is rendered once it is unmounted)
Exists == phase # "unmounted"

Poi(id) == CHOOSE poi \in pois : poi.id = id

\* C1: while the component exists, every POI is reported in range exactly
\* when a fix has been delivered and the distance from the most recently
\* delivered fix to the POI is at most the POI's geofenceRadius.
InRangeIffLatestFixWithinRadius ==
    Exists =>
        \A poi \in pois :
            isWithinGeofence(poi) <=>
                /\ lastFix # Null
                /\ Distance(lastFix, poi) <= poi.geofenceRadius

\* a second fix of a subscription has just been handled; it lies exactly on
\* the border of one fence (in range) and outside another
FixOnFenceBorder ==
    /\ lastEvent.name = "fix"
    /\ sessFixes >= 2
    /\ \E poi \in pois :
          /\ Distance(lastFix, poi) = poi.geofenceRadius
          /\ poi.geofenceRadius > 0
          /\ isWithinGeofence(poi)
    /\ \E poi \in pois : ~isWithinGeofence(poi)

\* C2: while no fix has been delivered, no POI is in range.
NoFixNothingInRange ==
    lastFix = Null => \A poi \in pois : ~isWithinGeofence(poi)

\* no fix yet, an error is shown, and the user has moved the map right onto
\* a POI
NoFixErrorShownCenterOnPoi ==
    /\ lastFix = Null
    /\ locationError # NullStr
    /\ mapCenter = <<Poi("marktplatz").coordinates.latitude,
                     Poi("marktplatz").coordinates.longitude>>
    /\ \A poi \in pois : ~isWithinGeofence(poi)

\* C3: the first fix delivered on a subscription leaves the view at that
\* fix's coordinates and zoom 15.
FirstFixCentersView ==
    (lastEvent.name = "fix" /\ sessFixes = 1) =>
        (mapCenter = lastEvent.arg /\ currentZoom = FixZoom)

\* C4: a fix that is not the first of its subscription sets the latest
\* position, clears the error and leaves center and zoom as they were.
LaterFixKeepsView ==
    [][(lastEvent'.name = "fix" /\ sessFixes >= 1) =>
          /\ userLocation' = lastEvent'.arg
          /\ locationError' = NullStr
          /\ mapCenter' = mapCenter
          /\ currentZoom' = currentZoom]_vars

\* a later fix has been handled at a coordinate other than the center
LaterFixAwayFromCenter ==
    /\ lastEvent.name = "fix"
    /\ sessFixes >= 2
    /\ userLocation = lastEvent.arg
    /\ mapCenter # userLocation

\* C5: a success callback of an already stopped subscription changes
\* neither the latest position nor the view.
LateFixHasNoEffect ==
    [][lastEvent'.name = "lateFix" =>
          UNCHANGED <<userLocation, mapCenter, currentZoom>>]_vars

\* C6: within one subscription, fixes set the view at most once.
AtMostOneTrackerRecenter == sessRecenters <= 1

\* a fix, then an error, then another fix on the same subscription
FixAfterErrorRecovery ==
    /\ lastEvent.name = "fix"
    /\ sessErrAfterFix
    /\ sessFixes >= 2
    /\ locationError = NullStr

\* a step that may set the center: manual navigation, the recenter action,
\* the first fix of a subscription
CenterWriterStep ==
    \/ lastEvent'.name \in {"userMove", "recenter"}
    \/ lastEvent'.name = "fix" /\ sessFixes = 0

\* C7: manual navigation that ends at center C2 sets the center to C2, and
\* no step other than manual navigation, a recenter or a first fix changes
\* the center.
ManualNavigationSetsCenter ==
    [][/\ lastEvent'.name = "userMove" =>
            mapCenter' = <<lastEvent'.arg[1], lastEvent'.arg[2]>>
       /\ ~CenterWriterStep => mapCenter' = mapCenter]_vars

\* the user moved the map after a recenter, then an error and a fix came,
\* and the center is still the user's
UserCenterSurvivesFix ==
    /\ lastEvent.name = "fix"
    /\ sessErrAfterFix
    /\ mapCenter \in NavCenters
    /\ currentZoom = FixZoom

\* C8: a recenter with a known position leaves the center at that position
\* and the zoom at 15.
RecenterSetsView ==
    (lastEvent.name = "recenter" /\ userLocation # Null) =>
        (mapCenter = userLocation /\ currentZoom = FixZoom)

\* a recenter with a known position has run and the surface shows it
RecenterDone ==
    /\ lastEvent.name = "recenter"
    /\ userLocation # Null
    /\ surfaceCenter = userLocation
    /\ surfaceZoom = FixZoom

\* C9: a recenter with no known position changes neither view, position
\* nor error.
RecenterWithoutPositionIsNoOp ==
    [][(lastEvent'.name = "recenter" /\ userLocation = Null) =>
          UNCHANGED <<mapCenter, currentZoom, userLocation, locationError>>]_vars

\* a recenter ran with no position, an error shown and the view user-set
RecenterWithoutPositionDone ==
    /\ lastEvent.name = "recenter"
    /\ userLocation = Null
    /\ locationError # NullStr
    /\ mapCenter \in NavCenters

\* C10: while the component exists, the recenter control is disabled
\* exactly when no fix has been delivered yet.
RecenterDisabledIffNoFixYet ==
    Exists => (RecenterDisabled <=> lastFix = Null)

\* a fix was obtained, tracking was restarted and an error is shown: the
\* control is enabled
EnabledDespiteErrorAfterRestart ==
    /\ phase = "mounted"
    /\ ~RecenterDisabled
    /\ locationError # NullStr
    /\ nextWatchId > 2

\* C11: at most one position subscription is live at any moment, and while
\* the component is mounted the ref holds exactly the live one.
AtMostOneLiveSubscription ==
    /\ Cardinality(watches) <= 1
    /\ \A id \in watches : phase = "mounted" /\ watchIdRef = id

\* the effect has re-run twice: the third subscription is the only live one
RestartedTwice ==
    /\ lastEvent.name = "language"
    /\ watches = {3}
    /\ Cardinality(stale) = 2

\* C12: once the view is torn down no subscription is live and the ref is
\* cleared.
TeardownCancelsSubscription ==
    phase = "unmounted" => (watches = {} /\ watchIdRef = NullId)

\* a view that held a subscription has just been torn down
TornDownWithSubscription ==
    /\ lastEvent.name = "teardown"
    /\ hasGeolocation
    /\ watches = {}
    /\ watchIdRef = NullId
    /\ stale # {}

\* C13: once the subscription is stopped, running the cleanup again calls
\* clearWatch with nothing and leaves ref, live watches and queued
\* callbacks as they are.
StopAgainIsNoOp ==
    phase = "unmounted" =>
        /\ ClearWatchCalls = {}
        /\ CleanupRef = watchIdRef
        /\ CleanupWatches = watches
        /\ CleanupStale = stale

\* the cleanup has stopped a subscription whose callback is still queued
StoppedOnce ==
    /\ phase = "unmounted"
    /\ hasGeolocation
    /\ nextWatchId = 2
    /\ stale = {[id |-> 1, lang |-> language]}
    /\ ClearWatchCalls = {}

\* C14: a fix the component has just handled leaves no error active and
\* the latest position at the fix's coordinates.
FixClearsErrorAndSetsPosition ==
    (lastEvent.name = "fix" \/ (lastEvent.name = "lateFix" /\ phase = "mounted")) =>
        (locationError = NullStr /\ userLocation = lastEvent.arg)

\* a fix handled after an error of the same subscription, on a restarted
\* tracker, away from the map's center
FixHandledAfterError ==
    /\ lastEvent.name = "fix"
    /\ sessErrAfterFix
    /\ nextWatchId > 2
    /\ locationError = NullStr
    /\ userLocation = lastEvent.arg
    /\ mapCenter # userLocation

\* C15: an error leaves the subscription as it is: the same watch stays
\* live and held by the ref, and no new watch is started.
ErrorKeepsSubscription ==
    [][lastEvent'.name = "error" =>
          /\ UNCHANGED <<watches, nextWatchId, watchIdRef>>
          /\ watchIdRef' \in watches']_vars

\* a permission-denied error has been handled on a subscription that had
\* delivered a fix, and the subscription is still live
ErrorHandledSubscriptionLive ==
    /\ lastEvent = Event("error", <<PERMISSION_DENIED>>)
    /\ sessFixes >= 1
    /\ watchIdRef \in watches
    /\ locationError # NullStr

\* C16: without geolocation, once the effect has run, the unsupported
\* message of the current language is shown, no watch was ever registered,
\* the ref is empty, no position is known and the tracker has not touched
\* the view.
NoCapabilityNoSubscription ==
    (~hasGeolocation /\ phase # "rendered") =>
        /\ locationError = UnsupportedMessage(language)
        /\ watches = {}
        /\ stale = {}
        /\ nextWatchId = 1
        /\ watchIdRef = NullId
        /\ userLocation = Null
        /\ lastFix = Null
        /\ mapCenter \in {DefaultCenter} \cup NavCenters
        /\ currentZoom = DefaultZoom

\* the effect has just run on a platform without geolocation
MountedWithoutCapability ==
    /\ ~hasGeolocation
    /\ lastEvent.name = "mount"
    /\ locationError = UnsupportedMessage(language)
    /\ watches = {}

\* the LocationError a message stands for
ErrorKind(message) ==
    CASE message \in {"Location permission denied.",
                      "Standortberechtigung verweigert."} -> "permission-denied"
      [] message \in {"Location information unavailable.",
                      "Standortinformationen nicht verfügbar."} -> "position-unavailable"
      [] message \in {"Location request timed out.",
                      "Standortanfrage Zeitüberschreitung."} -> "timeout"
      [] message \in {"An unknown error occurred.",
                      "Ein unbekannter Fehler ist aufgetreten."} -> "unknown"
      [] OTHER -> "none"

\* C17: the error shown after an error callback is the class of its code:
\* 1 permission-denied, 2 position-unavailable, 3 timeout, any other code
\* unknown.
ErrorClassified ==
    (lastEvent.name \in {"error", "lateError"} /\ phase = "mounted") =>
        ErrorKind(locationError) =
            CASE lastEvent.arg[1] = 1 -> "permission-denied"
              [] lastEvent.arg[1] = 2 -> "position-unavailable"
              [] lastEvent.arg[1] = 3 -> "timeout"
              [] OTHER -> "unknown"

\* a timeout has been reported on a subscription that had already
\* delivered a fix and another error
TimeoutReported ==
    /\ lastEvent = Event("error", <<TIMEOUT>>)
    /\ sessErrAfterFix
    /\ ErrorKind(locationError) = "timeout"

\* C18: calculateDistance gives the same distance in both argument orders,
\* and zero for two equal coordinates (distances are whole metres, so a
\* tolerance of 1e-6 m is equality).
DistanceSymmetricAndZeroOnEqual ==
    measured # << >> =>
        /\ Abs(measured.ab - measured.ba) = 0
        /\ measured.a = measured.b => measured.ab = 0

\* a measured pair that differs in latitude and in longitude, with a
\* distance above zero
MeasuredDistinctPair ==
    /\ measured # << >>
    /\ measured.a[1] # measured.b[1]
    /\ measured.a[2] # measured.b[2]
    /\ measured.ab > 0
    /\ measured.ab = measured.ba

\* C19: a question read from the quiz content belongs to a quiz of 5
\* questions whose poiId no other quiz has, and it has four options in
\* English, four in German and a correctOptionIndex in 0..3.
QuizzesWellFormed ==
    quizRead # << >> =>
        LET quiz == quizzes[quizRead.quiz]
            question == quiz.questions[quizRead.question]
        IN  /\ Len(quiz.questions) = 5
            /\ \A k \in DOMAIN quizzes :
                  quizzes[k].poiId = quiz.poiId => k = quizRead.quiz
            /\ Len(question.options.en) = 4
            /\ Len(question.options.de) = 4
            /\ "correctOptionIndex" \in DOMAIN question
            /\ question.correctOptionIndex \in 0 .. 3

\* C20: when the user's gesture has ended with the surface at center C2 and
\* zoom Z2, the surface is still at (C2, Z2) once the move-end handler and
\* the re-render it causes are done.
ManualViewNotOverridden ==
    lastEvent.name = "userMove" =>
        /\ surfaceCenter = <<lastEvent.arg[1], lastEvent.arg[2]>>
        /\ surfaceZoom = lastEvent.arg[3]

\* no moveend fired by a programmatic setView waits for its handler
Quiescent == phase = "mounted" => ~moveEndPending

\* C21: once external events (fixes, errors, recenters, gestures, language
\* changes) have stopped, the setView / move-end handlers come to rest: from
\* some point on no programmatic moveend is pending.
MoveEndHandlersQuiesce ==
    <>[][lastEvent'.name = "moveEnd"]_vars => <>[]Quiescent

\* the texts of the errors in one language
MessagesIn(lang) ==
    {UnsupportedMessage(lang)} \cup {ErrorMessage(code, lang) : code \in ErrorCodes}

\* C22: while the component exists, an error that is shown is shown in the
\* text of the current language.
ErrorShownInCurrentLanguage ==
    (Exists /\ locationError # NullStr) => locationError \in MessagesIn(language)

\* C23: a click on a POI's marker calls onPoiClick once, with that POI, and
\* changes neither position, error, subscription nor view.
MarkerClickEmitsPoiOnce ==
    [][lastEvent'.name = "poiClick" =>
          /\ onPoiClickCalls' = <<Poi(lastEvent'.arg)>>
          /\ UNCHANGED <<component, platform, surface, language>>]_vars

\* a marker was clicked while no position is known, an error is shown and
\* the POI is therefore out of range
ClickedOutOfRangeWithError ==
    /\ lastEvent.name = "poiClick"
    /\ userLocation = Null
    /\ locationError # NullStr
    /\ ~isWithinGeofence(Poi(lastEvent.arg))
    /\ onPoiClickCalls = <<Poi(lastEvent.arg)>>

\* C24: handling a location error, of the live subscription or a late one,
\* leaves the latest position, the in-range state of every POI, the center
\* and zoom in the state and the view of the surface as they were.
ErrorChangesOnlyErrorState ==
    [][lastEvent'.name \in {"error", "lateError"} =>
          /\ UNCHANGED <<userLocation, mapCenter, currentZoom, surfaceCenter,
                         surfaceZoom>>
          /\ \A poi \in pois : isWithinGeofence(poi)' = isWithinGeofence(poi)]_vars

\* an error has been handled while a position is known, a POI is in range
\* of it and the user has moved the map
ErrorHandledPoiStillInRange ==
    /\ lastEvent.name = "error"
    /\ locationError # NullStr
    /\ userLocation # Null
    /\ \E poi \in pois : isWithinGeofence(poi)
    /\ mapCenter \in NavCenters

\* the center and zoom in the state and the view the surface shows
ViewState == <<mapCenter, currentZoom, surfaceCenter, surfaceZoom>>

====
